---- MODULE Spec2Model ----
(***************************************************************************)
(* The SQL tokenizer (class Tokenizer): the scan loop of tokenize, the     *)
(* priority cascade of getNextToken, the reserved-word and placeholder     *)
(* disambiguation, and the matchers of REGEX_MAP.                          *)
(*                                                                         *)
(* A string is a sequence of one-character strings.  A regular expression  *)
(* is a record naming its shape; RegexMatch gives the length of the text   *)
(* its first capture group takes at the head of the input, or NoMatch.     *)
(***************************************************************************)
EXTENDS Integers, Sequences, FiniteSets, TLC

\* ------------------------------------------------------------------ bounds

\* Inputs of the exhaustive part: every string over Alphabet up to this length.
MaxLen == 3
\* Tokens one call may emit in the model (a stalled scan would emit without end).
MaxTokens == 8

\* --------------------------------------------------------------- characters

Lower == <<"a","b","c","d","e","f","g","h","i","j","k","l","m",
           "n","o","p","q","r","s","t","u","v","w","x","y","z">>

Upper == <<"A","B","C","D","E","F","G","H","I","J","K","L","M",
           "N","O","P","Q","R","S","T","U","V","W","X","Y","Z">>

LowerSet == {Lower[i] : i \in 1..26}

UpperSet == {Upper[i] : i \in 1..26}

Digits == {"0","1","2","3","4","5","6","7","8","9"}

HexDigits == Digits \cup {"a","b","c","d","e","f","A","B","C","D","E","F"}

\* \s of the characters the model uses
WhitespaceChars == {" ", "\t", "\n", "\r"}

\* the characters "." of a regular expression does not match
LineTerminators == {"\n", "\r"}

\* \w, which decides \b
WordChars == LowerSet \cup UpperSet \cup Digits \cup {"_"}

\* every character of the model's inputs (the backquote is left out)
AllChars ==
  WordChars \cup WhitespaceChars \cup
  {"+","-","/","*","%","&","|","^",">","<","=",".",",",";","[","]","{","}",
   ":","$","@","(",")","?","'","\"","\\","#","!","~"}

\* -------------------------------------------------------------- strings

Min(a, b) == IF a < b THEN a ELSE b

\* the one element of a set of one element: Only({e(x) : x \in {v}}) is e(v)
Only(S) == CHOOSE x \in S : TRUE

\* s.substring(n)
substring(s, n) == SubSeq(s, n + 1, Len(s))

\* s.slice(from, to) for 0 <= from, to (to past the end is the end)
slice(s, from, to) == SubSeq(s, from + 1, Min(to, Len(s)))

\* length of the longest prefix of s made of characters of S
Span(s, S) ==
  IF \A i \in 1..Len(s) : s[i] \in S
  THEN Len(s)
  ELSE (CHOOSE i \in 1..Len(s) : s[i] \notin S /\ \A j \in 1..(i - 1) : s[j] \in S) - 1

UpperOf(c) ==
  IF c \in LowerSet THEN Upper[CHOOSE i \in 1..26 : Lower[i] = c] ELSE c

\* text.toUpperCase()
toUpperCase(s) == [i \in 1..Len(s) |-> UpperOf(s[i])]

\* utils.equalizeWhitespace: every run of whitespace becomes one space
RECURSIVE equalizeWhitespace(_)
equalizeWhitespace(s) ==
  IF s = <<>> THEN <<>>
  ELSE IF Head(s) \in WhitespaceChars
       THEN <<" ">> \o equalizeWhitespace(substring(s, Span(s, WhitespaceChars)))
       ELSE <<Head(s)>> \o equalizeWhitespace(Tail(s))

\* utils.id
id(s) == s

toCanonicalKeyword(text) == equalizeWhitespace(toUpperCase(text))

\* ------------------------------------------------------- regular expressions

\* input.match(regex) === null
NoMatch == -1

\* a match of n characters followed by a match of m
Then(n, m) == IF n = NoMatch \/ m = NoMatch THEN NoMatch ELSE n + m

\* \b after the first n characters of s (n >= 0)
WordBoundaryAt(s, n) ==
  LET before == n >= 1 /\ n <= Len(s) /\ s[n] \in WordChars
      after  == n + 1 <= Len(s) /\ s[n + 1] \in WordChars
  IN before # after

WHITESPACE_REGEX == [kind |-> "whitespace"]

NULL_REGEX == [kind |-> "null"]

\* /^(\s+)/u
WhitespaceMatch(s) ==
  LET n == Span(s, WhitespaceChars) IN IF n >= 1 THEN n ELSE NoMatch

\* [eE][-+]?[0-9]+(\.[0-9]+)? at the head of s, as an optional group: 0 when absent
ExponentLen(s) ==
  IF s # <<>> /\ s[1] \in {"e", "E"}
  THEN LET sg == IF Len(s) >= 2 /\ s[2] \in {"-", "+"} THEN 1 ELSE 0
           d  == Span(substring(s, 1 + sg), Digits)
           r  == substring(s, 1 + sg + d)
           f  == IF Len(r) >= 2 /\ r[1] = "." /\ r[2] \in Digits
                 THEN 1 + Span(Tail(r), Digits) ELSE 0
       IN IF d = 0 THEN 0 ELSE 1 + sg + d + f
  ELSE 0

\* DecimalMatch with the sign directly before the digits: -?[0-9]+...
DecimalMatchAdjacent(s) ==
  LET sign == IF s # <<>> /\ s[1] = "-" THEN 1 ELSE 0
      d    == Span(substring(s, sign), Digits)
      r1   == substring(s, sign + d)
      frac == IF r1 # <<>> /\ r1[1] = "." THEN 1 + Span(Tail(r1), Digits) ELSE 0
      ex   == ExponentLen(substring(s, sign + d + frac))
  IN IF d = 0 THEN NoMatch ELSE sign + d + frac + ex

\* (-\s*)?[0-9]+(\.[0-9]*)?([eE][-+]?[0-9]+(\.[0-9]+)?)?
DecimalMatch(s) ==
  LET sign == IF s # <<>> /\ s[1] = "-"
              THEN 1 + Span(Tail(s), WhitespaceChars) ELSE 0
      d    == Span(substring(s, sign), Digits)
      r1   == substring(s, sign + d)
      frac == IF r1 # <<>> /\ r1[1] = "." THEN 1 + Span(Tail(r1), Digits) ELSE 0
      ex   == ExponentLen(substring(s, sign + d + frac))
  IN IF d = 0 THEN NoMatch ELSE sign + d + frac + ex

\* /^(0x[0-9a-fA-F]+|0b[01]+|(-\s*)?[0-9]+(\.[0-9]*)?([eE][-+]?[0-9]+(\.[0-9]+)?)?)/u
NumberMatch(s) ==
  LET two == Len(s) >= 2 /\ s[1] = "0"
      hex == IF two /\ s[2] = "x" THEN Span(substring(s, 2), HexDigits) ELSE 0
      bin == IF two /\ s[2] = "b" THEN Span(substring(s, 2), {"0", "1"}) ELSE 0
  IN IF hex >= 1 THEN 2 + hex
     ELSE IF bin >= 1 THEN 2 + bin
     ELSE DecimalMatch(s)

\* /^(\/\*[^]*?(?:\*\/|$))/u
BlockCommentMatch(s) ==
  IF Len(s) >= 2 /\ s[1] = "/" /\ s[2] = "*"
  THEN LET closed == {i \in 3..(Len(s) - 1) : s[i] = "*" /\ s[i + 1] = "/"}
       IN IF closed = {} THEN Len(s)
          ELSE (CHOOSE i \in closed : \A j \in closed : i <= j) + 1
  ELSE NoMatch

\* the characters of phrase w at the head of s, letters compared without case and
\* a space of w standing for \s+
RECURSIVE PhraseLen(_, _)
PhraseLen(w, s) ==
  IF w = <<>> THEN 0
  ELSE IF s = <<>> THEN NoMatch
  ELSE IF Head(w) = " "
       THEN LET k == Span(s, WhitespaceChars)
            IN IF k = 0 THEN NoMatch ELSE Then(k, PhraseLen(Tail(w), substring(s, k)))
       ELSE IF UpperOf(Head(s)) = UpperOf(Head(w))
            THEN Then(1, PhraseLen(Tail(w), Tail(s)))
            ELSE NoMatch

\* /^(CASE)\b/iu and /^(END)\b/iu
WordMatch(w, s) ==
  LET n == PhraseLen(w, s)
  IN IF n # NoMatch /\ WordBoundaryAt(s, n) THEN n ELSE NoMatch

\* /^(\?)/
LiteralMatch(w, s) ==
  IF Len(s) >= Len(w) /\ SubSeq(s, 1, Len(w)) = w THEN Len(w) ELSE NoMatch

\* ------------------------------------------- the pattern factory (regexFactory)

UndefinedRegex == [kind |-> "undefined"]

\* the first alternative of r (a sequence of match results) that matches
FirstMatch(r) ==
  IF \A i \in DOMAIN r : r[i] = NoMatch THEN NoMatch
  ELSE r[CHOOSE i \in DOMAIN r : r[i] # NoMatch /\ \A j \in 1..(i - 1) : r[j] = NoMatch]

\* w put into ws, a sequence in order of decreasing length, behind every word
\* that is at least as long
InsertByLength(w, ws) ==
  LET k == Cardinality({i \in DOMAIN ws : Len(ws[i]) >= Len(w)})
  IN SubSeq(ws, 1, k) \o <<w>> \o SubSeq(ws, k + 1, Len(ws))

RECURSIVE sortByLengthDesc(_)
sortByLengthDesc(ws) ==
  IF ws = <<>> THEN <<>>
  ELSE InsertByLength(ws[Len(ws)], sortByLengthDesc(SubSeq(ws, 1, Len(ws) - 1)))

createReservedWordRegex(reservedKeywords, specialWordChars) ==
  [kind |-> "reserved", words |-> sortByLengthDesc(reservedKeywords),
   special |-> {specialWordChars[i] : i \in DOMAIN specialWordChars}]

createIdentRegex(specialChars) ==
  [kind |-> "ident", special |-> {specialChars[i] : i \in DOMAIN specialChars}]

createQuotePattern(quoteTypes) == [kind |-> "quote", types |-> quoteTypes]

createQuoteRegex(quoteTypes) == createQuotePattern(quoteTypes)

createOperatorRegex(monadOperators, polyadOperators) ==
  [kind |-> "operator", monads |-> {monadOperators[i] : i \in DOMAIN monadOperators},
   polyads |-> sortByLengthDesc(polyadOperators)]

createParenRegex(parens) == [kind |-> "paren", parens |-> parens]

createLineCommentRegex(lineCommentTypes) ==
  [kind |-> "lineComment", types |-> lineCommentTypes]

\* no regex for a placeholder style with no prefix configured
createPlaceholderRegex(types, pattern) ==
  IF types = <<>> THEN UndefinedRegex
  ELSE [kind |-> "placeholder", types |-> {types[i] : i \in DOMAIN types},
        pattern |-> pattern]

\* a character class repeated once or more: [a-zA-Z0-9_$]+ and [0-9]+
CharsPattern(S) == [kind |-> "chars", set |-> S]

\* one of the words, the longest first, not followed by a special character, then \b
ReservedWordMatch(words, special, s) ==
  FirstMatch([i \in DOMAIN words |->
    LET n == PhraseLen(words[i], s)
    IN IF n # NoMatch /\ WordBoundaryAt(s, n)
          /\ ~(n + 1 <= Len(s) /\ s[n + 1] \in special)
       THEN n ELSE NoMatch])

IdentMatch(special, s) ==
  LET n == Span(s, WordChars \cup special) IN IF n >= 1 THEN n ELSE NoMatch

\* the quote character of a quoting style, one of '' and ""
QuoteChar(type) == IF type = "''" THEN "'" ELSE "\""

\* whether a backslash escapes the next character inside the style
BackslashEscapes(type) == type \in {"''", "\"\""}

\* the place of the quote that closes a quoted text of s whose body starts at i
RECURSIVE QuoteClose(_, _, _, _)
QuoteClose(q, esc, s, i) ==
  IF i > Len(s) THEN NoMatch
  ELSE IF s[i] = q THEN i
  ELSE IF esc /\ s[i] = "\\"
       THEN IF i + 1 <= Len(s) /\ s[i + 1] \notin LineTerminators
            THEN QuoteClose(q, esc, s, i + 2) ELSE NoMatch
       ELSE QuoteClose(q, esc, s, i + 1)

\* quoted texts that follow one another at once are one match ('it''s')
RECURSIVE QuoteRun(_, _, _, _)
QuoteRun(q, esc, s, n) ==
  IF n + 1 <= Len(s) /\ s[n + 1] = q
  THEN LET c == QuoteClose(q, esc, s, n + 2)
       IN IF c = NoMatch THEN n ELSE QuoteRun(q, esc, s, c)
  ELSE n

QuoteTypeMatch(type, s) ==
  IF s # <<>> /\ s[1] = QuoteChar(type)
  THEN LET c == QuoteClose(QuoteChar(type), BackslashEscapes(type), s, 2)
       IN IF c = NoMatch THEN NoMatch
          ELSE QuoteRun(QuoteChar(type), BackslashEscapes(type), s, c)
  ELSE NoMatch

QuoteMatch(types, s) == FirstMatch([i \in DOMAIN types |-> QuoteTypeMatch(types[i], s)])

OperatorMatch(monads, polyads, s) ==
  LET p == FirstMatch([i \in DOMAIN polyads |-> LiteralMatch(polyads[i], s)])
  IN IF p # NoMatch THEN p
     ELSE IF s # <<>> /\ s[1] \in monads THEN 1 ELSE NoMatch

ParenMatch(parens, s) == FirstMatch([i \in DOMAIN parens |-> LiteralMatch(parens[i], s)])

\* a marker, then the rest of the line
LineCommentMatch(types, s) ==
  LET m == FirstMatch([i \in DOMAIN types |-> LiteralMatch(types[i], s)])
  IN IF m = NoMatch THEN NoMatch
     ELSE m + Span(substring(s, m), AllChars \ LineTerminators)

\* input.match(regex): the length of matches[1], or NoMatch
RECURSIVE RegexMatch(_, _)
RegexMatch(s, regex) ==
  CASE regex.kind = "null"        -> NoMatch
    [] regex.kind = "undefined"   -> NoMatch
    [] regex.kind = "whitespace"  -> WhitespaceMatch(s)
    [] regex.kind = "number"      -> NumberMatch(s)
    [] regex.kind = "blockComment" -> BlockCommentMatch(s)
    [] regex.kind = "word"        -> WordMatch(regex.word, s)
    [] regex.kind = "literal"     -> LiteralMatch(regex.text, s)
    [] regex.kind = "reserved"    -> ReservedWordMatch(regex.words, regex.special, s)
    [] regex.kind = "ident"       -> IdentMatch(regex.special, s)
    [] regex.kind = "quote"       -> QuoteMatch(regex.types, s)
    [] regex.kind = "operator"    -> OperatorMatch(regex.monads, regex.polyads, s)
    [] regex.kind = "paren"       -> ParenMatch(regex.parens, s)
    [] regex.kind = "lineComment" -> LineCommentMatch(regex.types, s)
    [] regex.kind = "chars"       ->
         (LET n == Span(s, regex.set) IN IF n >= 1 THEN n ELSE NoMatch)
    [] regex.kind = "placeholder" ->
         IF s # <<>> /\ s[1] \in regex.types
         THEN Then(1, RegexMatch(Tail(s), regex.pattern))
         ELSE NoMatch

\* ------------------------------------------------------ construction

\* cfg.field ?? default
Opt(cfg, field, default) == IF field \in DOMAIN cfg THEN cfg[field] ELSE default

\* Object.values(obj) of a specialIdentChars object
ObjectValues(obj) ==
  Opt(obj, "prefix", <<>>) \o Opt(obj, "any", <<>>) \o Opt(obj, "suffix", <<>>)

specialIdentCharsAll(cfg) == ObjectValues(Opt(cfg, "specialIdentChars", <<>>))

\* the built-in operator characters (the backquote, not a character of the model,
\* is left out) and the built-in operators of several characters
MonadOperators ==
  <<"+","-","/","*","%","&","|","^",">","<","=",".",",",";","[","]","{","}",":","$","@">>

PolyadOperators == << <<"<", ">">>, <<"<", "=">>, <<">", "=">>, <<"!", "=">> >>

\* the characters of a placeholder's name: [a-zA-Z0-9_$]
PlaceholderNameChars == LowerSet \cup UpperSet \cup Digits \cup {"_", "$"}

BuildRegexMap(cfg) ==
  [IDENT |-> createIdentRegex(specialIdentCharsAll(cfg)),
   STRING |-> createQuoteRegex(cfg.stringTypes),
   RESERVED_KEYWORD |->
     createReservedWordRegex(cfg.reservedKeywords, specialIdentCharsAll(cfg)),
   RESERVED_DEPENDENT_CLAUSE |->
     createReservedWordRegex(cfg.reservedDependentClauses, specialIdentCharsAll(cfg)),
   RESERVED_LOGICAL_OPERATOR |->
     createReservedWordRegex(
       Opt(cfg, "reservedLogicalOperators", << <<"A","N","D">>, <<"O","R">> >>),
       specialIdentCharsAll(cfg)),
   RESERVED_COMMAND |->
     createReservedWordRegex(cfg.reservedCommands, specialIdentCharsAll(cfg)),
   RESERVED_BINARY_COMMAND |->
     createReservedWordRegex(cfg.reservedBinaryCommands, specialIdentCharsAll(cfg)),
   RESERVED_JOIN_CONDITION |->
     createReservedWordRegex(
       Opt(cfg, "reservedJoinConditions", << <<"O","N">>, <<"U","S","I","N","G">> >>),
       specialIdentCharsAll(cfg)),
   OPERATOR |->
     createOperatorRegex(MonadOperators, PolyadOperators \o Opt(cfg, "operators", <<>>)),
   BLOCK_START |-> createParenRegex(Opt(cfg, "blockStart", << <<"(">> >>)),
   BLOCK_END |-> createParenRegex(Opt(cfg, "blockEnd", << <<")">> >>)),
   RESERVED_CASE_START |-> [kind |-> "word", word |-> <<"C","A","S","E">>],
   RESERVED_CASE_END |-> [kind |-> "word", word |-> <<"E","N","D">>],
   LINE_COMMENT |->
     createLineCommentRegex(Opt(cfg, "lineCommentTypes", << <<"-","-">> >>)),
   BLOCK_COMMENT |-> [kind |-> "blockComment"],
   NUMBER |-> [kind |-> "number"],
   PLACEHOLDER |-> NULL_REGEX,
   EOF |-> NULL_REGEX]

\* patterns.filter(p => p.regex !== undefined)
excludePatternsWithoutRegexes(patterns) ==
  SelectSeq(patterns, LAMBDA p : p.regex.kind # "undefined")

BuildPlaceholderPatterns(cfg) ==
  excludePatternsWithoutRegexes(<<
    [regex |-> createPlaceholderRegex(Opt(cfg, "namedPlaceholderTypes", <<>>),
                                      CharsPattern(PlaceholderNameChars)),
     parseKey |-> "named"],
    [regex |-> createPlaceholderRegex(Opt(cfg, "quotedPlaceholderTypes", <<>>),
                                      createQuotePattern(cfg.identifierTypes)),
     parseKey |-> "quoted"],
    [regex |-> createPlaceholderRegex(Opt(cfg, "numberedPlaceholderTypes", <<>>),
                                      CharsPattern(Digits)),
     parseKey |-> "numbered"],
    [regex |-> IF Opt(cfg, "positionalPlaceholders", FALSE)
               THEN [kind |-> "literal", text |-> <<"?">>] ELSE UndefinedRegex,
     parseKey |-> "positional"] >>)

\* ---------------------------------------------------------------- tokens

\* the value of a Token | undefined variable that holds no token
Undefined == [type |-> "undefined"]

IsUndefined(t) == t.type = "undefined"

ReservedTypes ==
  {"RESERVED_CASE_START", "RESERVED_CASE_END", "RESERVED_COMMAND",
   "RESERVED_BINARY_COMMAND", "RESERVED_DEPENDENT_CLAUSE",
   "RESERVED_LOGICAL_OPERATOR", "RESERVED_KEYWORD", "RESERVED_JOIN_CONDITION"}

\* a || b
OrElse(a, b) == Only({IF ~IsUndefined(x) THEN x ELSE b : x \in {a}})

Apply(transform, text) ==
  IF transform = "toCanonicalKeyword" THEN toCanonicalKeyword(text) ELSE id(text)

\* key.replace(new RegExp(escapeRegExp('\\' + quoteChar), 'gu'), quoteChar)
RECURSIVE getEscapedPlaceholderKey(_, _)
getEscapedPlaceholderKey(key, quoteChar) ==
  IF key = <<>> THEN <<>>
  ELSE IF Len(key) >= 2 /\ key[1] = "\\" /\ key[2] = quoteChar
       THEN <<quoteChar>> \o getEscapedPlaceholderKey(substring(key, 2), quoteChar)
       ELSE <<Head(key)>> \o getEscapedPlaceholderKey(Tail(key), quoteChar)

\* parseKey leaving the escaped quotes of a quoted name as they are
parseKeyStillEscaped(style, v) ==
  IF style = "quoted" THEN SubSeq(v, 3, Len(v) - 1) ELSE substring(v, 1)

\* the parseKey function of a placeholder pattern, applied to the token's value
parseKey(style, v) ==
  IF style = "quoted"
  THEN getEscapedPlaceholderKey(SubSeq(v, 3, Len(v) - 1), v[Len(v)])
  ELSE substring(v, 1)

\* ------------------------------------------------------ configurations

W_SELECT == <<"S","E","L","E","C","T">>

W_FROM == <<"F","R","O","M">>

W_A_B == <<"A"," ","B">>

W_B == <<"B">>

W_AS == <<"A","S">>

W_WHEN == <<"W","H","E","N">>

W_UNION == <<"U","N","I","O","N">>

W_AND == <<"A","N","D">>

W_A == <<"A">>

W_ON == <<"O","N">>

\* a dialect with every placeholder style
CfgSql ==
  [reservedKeywords |-> <<W_B, W_FROM, W_AS>>,
   reservedCommands |-> <<W_SELECT, W_FROM, W_A_B>>,
   reservedDependentClauses |-> <<W_WHEN, W_ON>>,
   reservedBinaryCommands |-> <<W_UNION>>,
   stringTypes |-> <<"''">>,
   identifierTypes |-> <<"\"\"">>,
   positionalPlaceholders |-> TRUE,
   numberedPlaceholderTypes |-> <<":">>,
   namedPlaceholderTypes |-> <<"@">>,
   quotedPlaceholderTypes |-> <<":", "@">>]

\* only the required options, every default taken
CfgPlain ==
  [reservedKeywords |-> <<>>,
   reservedCommands |-> <<W_A, W_FROM>>,
   reservedDependentClauses |-> <<>>,
   reservedBinaryCommands |-> <<W_A>>,
   stringTypes |-> <<"''">>,
   identifierTypes |-> <<>>]

\* a dialect with a preprocess hook, two comment markers and operators of its own
CfgHook ==
  [reservedKeywords |-> <<W_AS, W_B>>,
   reservedCommands |-> <<W_SELECT>>,
   reservedDependentClauses |-> <<W_B>>,
   reservedBinaryCommands |-> <<>>,
   reservedLogicalOperators |-> <<W_AND>>,
   reservedJoinConditions |-> <<W_ON, W_AS>>,
   stringTypes |-> <<"\"\"", "''">>,
   identifierTypes |-> <<"\"\"">>,
   blockStart |-> << <<"(">>, <<"[">> >>,
   blockEnd |-> << <<")">>, <<"]">> >>,
   namedPlaceholderTypes |-> <<":">>,
   lineCommentTypes |-> << <<"#">>, <<"-","-">> >>,
   specialIdentChars |-> [any |-> <<"$">>],
   operators |-> << <<":",":">>, <<"-",">">> >>,
   preprocess |-> "dropLineComments"]

\* a dialect whose list of opening brackets holds the empty string
CfgEmptyParen ==
  [reservedKeywords |-> <<W_B>>,
   reservedCommands |-> <<W_SELECT, W_FROM>>,
   reservedDependentClauses |-> <<>>,
   reservedBinaryCommands |-> <<>>,
   stringTypes |-> <<"''">>,
   identifierTypes |-> <<"\"\"">>,
   blockStart |-> << <<>> >>]

Configs == {CfgSql, CfgPlain, CfgHook, CfgEmptyParen}

\* ------------------------------------------------------------- inputs

Alphabet == {"a", "b", ".", " ", "-", "1", ":", "\""}

Strings(n) == UNION {[1..k -> Alphabet] : k \in 0..n}

ExCommentSelect == <<"-","-"," ","S","E","L","E","C","T"," ","1">>

ExDotFrom == <<"m","y","t","a","b","l","e",".","f","r","o","m">>

ExDotSpaceFrom == <<"t"," ","."," ","\n"," ","f","r","o","m">>

ExFrom == <<"f","r","o","m">>

ExTrailingDot == <<"t",".">>

ExNumbered == <<":","4","2">>

ExNamed == <<"@","f","o","o">>

ExPositional == <<"?">>

ExQuotedPlaceholder == <<":","\"","a","\\","\"","b","\"">>

ExMinusSpaced == <<"a"," ","-"," ","1">>

ExMinusAdjacent == <<"-","1">>

ExSelectFrom == <<"S","e","l","e","c","t"," ","*","\n","f","r","o","m"," ","t">>

ExPhrase == <<"a"," ","\n"," ","b">>

ExTrailingWhitespace == <<"s","e","l","e","c","t"," ","1"," ","\n">>

ExOnlyWhitespace == <<" ","\n">>

ExCaseEnd == <<"c","a","s","e"," ","e","n","d">>

ExBlockComment == <<"/","*"," ","c"," ","*","/","x">>

ExOpenComment == <<"/","*"," ","c">>

ExString == <<"'","i","t","'","'","s","'"," ","x">>

ExNumbers == <<"0","x","1","F"," ","1",".","5","e","-","3"," ","2",".">>

ExOperators == <<"a","<",">","b",":",":","c">>

ExHashComment == <<"#"," ","c","\n","x"," ","$","y">>

\* the length of the input prefix an error message quotes
UnexpectedMax == 100

\* two tokens, then more characters no category matches than a message quotes
ExLongUnexpected == <<"a", " ">> \o [i \in 1..(UnexpectedMax + 1) |-> "~"]

Examples ==
  {ExCommentSelect, ExDotFrom, ExDotSpaceFrom, ExFrom, ExTrailingDot,
   ExNumbered, ExNamed, ExPositional, ExQuotedPlaceholder, ExMinusSpaced,
   ExMinusAdjacent, ExSelectFrom, ExPhrase, ExTrailingWhitespace,
   ExOnlyWhitespace, ExCaseEnd, ExBlockComment, ExOpenComment, ExString,
   ExNumbers, ExOperators, ExHashComment, ExLongUnexpected}

Inputs == Strings(MaxLen) \cup Examples

\* the inputs of the calls the cross-call specification makes on one instance
CallInputs == {ExFrom, ExTrailingDot, ExDotFrom, <<"~">>, <<"b", " ">>, <<"a", ".">>}

\* ------------------------------------------------------------ the state

VARIABLES
  REGEX_MAP,            \* this.REGEX_MAP
  quotedIdentRegex,     \* this.quotedIdentRegex
  placeholderPatterns,  \* this.placeholderPatterns
  preprocess,           \* this.preprocess
  pc,                   \* "idle", or where the running call of tokenize is
  original,             \* the argument the running (or last) call was given
  input,                \* tokenize's input: what is left to scan
  tokens,               \* tokenize's tokens
  token,                \* tokenize's token: the previous token, or Undefined
  outcome,              \* what the last call gave its caller
  seen                  \* the calls that ended so far: their input and outcome

vars ==
  <<REGEX_MAP, quotedIdentRegex, placeholderPatterns, preprocess,
    pc, original, input, tokens, token, outcome, seen>>

instance == <<REGEX_MAP, quotedIdentRegex, placeholderPatterns, preprocess>>

NoOutcome == [kind |-> "none"]

\* ------------------------------------------------------------ the methods

\* Matches preceding whitespace if present
getWhitespace(str) ==
  Only({IF n # NoMatch THEN SubSeq(str, 1, n) ELSE <<>> :
        n \in {RegexMatch(str, WHITESPACE_REGEX)}})

match(str, type, regex, transform) ==
  Only({IF n # NoMatch
        THEN [type |-> type, text |-> SubSeq(str, 1, n),
              value |-> Apply(transform, SubSeq(str, 1, n))]
        ELSE Undefined : n \in {RegexMatch(str, regex)}})

matchToken(tokenType, str) == match(str, tokenType, REGEX_MAP[tokenType], "id")

\* matchReservedToken with the identity transform
matchReservedTokenAsWritten(tokenType, str) ==
  match(str, tokenType, REGEX_MAP[tokenType], "id")

matchReservedToken(tokenType, str) ==
  match(str, tokenType, REGEX_MAP[tokenType], "toCanonicalKeyword")

matchQuotedIdentToken(str) == match(str, "IDENT", quotedIdentRegex, "id")

\* { ...token, key: parseKey(token.value) }
WithKey(t, key) == [type |-> t.type, text |-> t.text, value |-> t.value, key |-> key]

\* the tokens of the patterns, pattern by pattern
PlaceholderHits(str) ==
  [i \in DOMAIN placeholderPatterns |->
     match(str, "PLACEHOLDER", placeholderPatterns[i].regex, "id")]

\* the first pattern that matches decides
FirstHit(hits) ==
  IF \A i \in DOMAIN hits : IsUndefined(hits[i]) THEN Undefined
  ELSE Only({WithKey(hits[i], parseKey(placeholderPatterns[i].parseKey, hits[i].value)) :
             i \in {CHOOSE j \in DOMAIN hits :
                      ~IsUndefined(hits[j]) /\ \A k \in 1..(j - 1) : IsUndefined(hits[k])}})

matchPlaceholderToken(str) == Only({FirstHit(hits) : hits \in {PlaceholderHits(str)}})

\* previousToken?.value === '.'
FollowsDot(previousToken) ==
  ~IsUndefined(previousToken) /\ previousToken.value = <<".">>

\* matchReservedWordToken without the check of the previous token
matchReservedWordTokenUnguarded(str, previousToken) ==
  OrElse(matchReservedToken("RESERVED_CASE_START", str),
  OrElse(matchReservedToken("RESERVED_CASE_END", str),
  OrElse(matchReservedToken("RESERVED_COMMAND", str),
  OrElse(matchReservedToken("RESERVED_BINARY_COMMAND", str),
  OrElse(matchReservedToken("RESERVED_DEPENDENT_CLAUSE", str),
  OrElse(matchReservedToken("RESERVED_LOGICAL_OPERATOR", str),
  OrElse(matchReservedToken("RESERVED_KEYWORD", str),
         matchReservedToken("RESERVED_JOIN_CONDITION", str))))))))

\* matchReservedWordToken trying the plain keywords before the commands
matchReservedWordTokenKeywordFirst(str, previousToken) ==
  IF FollowsDot(previousToken) THEN Undefined
  ELSE OrElse(matchReservedToken("RESERVED_CASE_START", str),
       OrElse(matchReservedToken("RESERVED_CASE_END", str),
       OrElse(matchReservedToken("RESERVED_KEYWORD", str),
       OrElse(matchReservedToken("RESERVED_COMMAND", str),
       OrElse(matchReservedToken("RESERVED_BINARY_COMMAND", str),
       OrElse(matchReservedToken("RESERVED_DEPENDENT_CLAUSE", str),
       OrElse(matchReservedToken("RESERVED_LOGICAL_OPERATOR", str),
              matchReservedToken("RESERVED_JOIN_CONDITION", str))))))))

matchReservedWordToken(str, previousToken) ==
  IF FollowsDot(previousToken) THEN Undefined
  ELSE OrElse(matchReservedToken("RESERVED_CASE_START", str),
       OrElse(matchReservedToken("RESERVED_CASE_END", str),
       OrElse(matchReservedToken("RESERVED_COMMAND", str),
       OrElse(matchReservedToken("RESERVED_BINARY_COMMAND", str),
       OrElse(matchReservedToken("RESERVED_DEPENDENT_CLAUSE", str),
       OrElse(matchReservedToken("RESERVED_LOGICAL_OPERATOR", str),
       OrElse(matchReservedToken("RESERVED_KEYWORD", str),
              matchReservedToken("RESERVED_JOIN_CONDITION", str))))))))

\* getNextToken trying the operators first
getNextTokenOperatorFirst(str, previousToken) ==
  OrElse(matchToken("OPERATOR", str),
  OrElse(matchToken("LINE_COMMENT", str),
  OrElse(matchToken("BLOCK_COMMENT", str),
  OrElse(matchToken("STRING", str),
  OrElse(matchQuotedIdentToken(str),
  OrElse(matchToken("BLOCK_START", str),
  OrElse(matchToken("BLOCK_END", str),
  OrElse(matchPlaceholderToken(str),
  OrElse(matchToken("NUMBER", str),
  OrElse(matchReservedWordToken(str, previousToken),
         matchToken("IDENT", str)))))))))))

getNextToken(str, previousToken) ==
  OrElse(matchToken("LINE_COMMENT", str),
  OrElse(matchToken("BLOCK_COMMENT", str),
  OrElse(matchToken("STRING", str),
  OrElse(matchQuotedIdentToken(str),
  OrElse(matchToken("BLOCK_START", str),
  OrElse(matchToken("BLOCK_END", str),
  OrElse(matchPlaceholderToken(str),
  OrElse(matchToken("NUMBER", str),
  OrElse(matchReservedWordToken(str, previousToken),
  OrElse(matchToken("IDENT", str),
         matchToken("OPERATOR", str)))))))))))

\* { ...token, whitespaceBefore }
WithWhitespace(t, whitespaceBefore) ==
  [f \in DOMAIN t \cup {"whitespaceBefore"} |->
     IF f = "whitespaceBefore" THEN whitespaceBefore ELSE t[f]]

\* this.preprocess(tokens): the default (tokens) => tokens, or the hook of the
\* configuration
ApplyPreprocess(hook, toks) ==
  IF hook = "dropLineComments"
  THEN SelectSeq(toks, LAMBDA t : t.type # "LINE_COMMENT")
  ELSE toks

\* ParseError quoting all of the input that is left
ParseErrorUncut(str) == <<"Parse error: Unexpected \"", str, "\"">>

\* `Parse error: Unexpected "${input.slice(0, 100)}"`
ParseError(str) ==
  <<"Parse error: Unexpected \"", slice(str, 0, UnexpectedMax), "\"">>

\* ------------------------------------------------------------ the actions

\* new Tokenizer(cfg)
Constructor(cfg) ==
  /\ preprocess = Opt(cfg, "preprocess", "identity")
  /\ quotedIdentRegex = createQuoteRegex(cfg.identifierTypes)
  /\ REGEX_MAP = BuildRegexMap(cfg)
  /\ placeholderPatterns = BuildPlaceholderPatterns(cfg)

Init ==
  /\ \E cfg \in Configs : Constructor(cfg)
  /\ pc = "idle"
  /\ original = <<>>
  /\ input = <<>>
  /\ tokens = <<>>
  /\ token = Undefined
  /\ outcome = NoOutcome
  /\ seen = {}

\* the previous token kept from the call before
InitialTokenKept == token

\* let token: Token | undefined
InitialToken == Undefined

\* tokenize(str) is called: const tokens = [], let token
Enter(str) ==
  /\ pc # "loop"
  /\ pc' = "loop"
  /\ original' = str
  /\ input' = str
  /\ tokens' = <<>>
  /\ token' = InitialToken
  /\ outcome' = NoOutcome
  /\ UNCHANGED instance

\* the input the loop's body looks at once the whitespace before it is taken
AfterWhitespace(str) == substring(str, Len(getWhitespace(str)))

\* Advance by the length of the token's value
AdvanceByValue(str, t) == substring(str, Len(t.value))

\* how far a token moves the scan on: input.substring(token.text.length)
Advance(str, t) == substring(str, Len(t.text))

\* tokens.push({ ...token, whitespaceBefore })
Pushed(toks, t, whitespaceBefore) == Append(toks, WithWhitespace(t, whitespaceBefore))

\* one round of the loop in which a token is matched
LoopToken ==
  /\ pc = "loop"
  /\ input # <<>>
  /\ Len(tokens) < MaxTokens
  /\ \E str \in {AfterWhitespace(input)} :
       \E t \in {getNextToken(str, token)} :
          /\ str # <<>>
          /\ ~IsUndefined(t)
          /\ token' = t
          /\ input' = Advance(str, t)
          /\ tokens' = Pushed(tokens, t, getWhitespace(input))
  /\ UNCHANGED <<instance, pc, original, outcome>>

\* what the caller gets when no category matches
Thrown(str, toks) == [kind |-> "error", message |-> ParseError(str)]

\* one round of the loop in which no category matches: throw new Error(...)
LoopThrow ==
  /\ pc = "loop"
  /\ input # <<>>
  /\ \E str \in {AfterWhitespace(input)} :
       /\ str # <<>>
       /\ IsUndefined(getNextToken(str, token))
       /\ token' = Undefined
       /\ input' = str
       /\ outcome' = Thrown(str, tokens)
  /\ pc' = "thrown"
  /\ UNCHANGED <<instance, original, tokens>>

\* one round of the loop in which only whitespace was left
LoopWhitespace ==
  /\ pc = "loop"
  /\ input # <<>>
  /\ AfterWhitespace(input) = <<>>
  /\ input' = <<>>
  /\ UNCHANGED <<instance, pc, original, tokens, token, outcome>>

\* the loop ends: return this.preprocess(tokens)
Return ==
  /\ pc = "loop"
  /\ input = <<>>
  /\ pc' = "returned"
  /\ outcome' = [kind |-> "tokens", tokens |-> ApplyPreprocess(preprocess, tokens)]
  /\ UNCHANGED <<instance, original, input, tokens, token>>

\* the call is over and its frame is gone
Leave ==
  /\ pc \in {"returned", "thrown"}
  /\ pc' = "idle"
  /\ original' = <<>>
  /\ input' = <<>>
  /\ tokens' = <<>>
  /\ token' = Undefined
  /\ outcome' = NoOutcome
  /\ UNCHANGED instance

\* a call on an idle instance, of any input
Call == pc = "idle" /\ \E str \in Inputs : Enter(str)

Next ==
  \/ Call /\ UNCHANGED seen
  \/ Leave /\ UNCHANGED seen
  \/ LoopToken /\ UNCHANGED seen
  \/ LoopThrow /\ UNCHANGED seen
  \/ LoopWhitespace /\ UNCHANGED seen
  \/ Return /\ UNCHANGED seen

Spec == Init /\ [][Next]_vars

\* call after call on one instance, each ended call remembered with its input and
\* its outcome
CallAgain == \E str \in CallInputs : Enter(str)

Ended == seen' = seen \cup {[input |-> original, outcome |-> outcome']}

NextCalls ==
  \/ CallAgain /\ UNCHANGED seen
  \/ LoopToken /\ UNCHANGED seen
  \/ LoopWhitespace /\ UNCHANGED seen
  \/ LoopThrow /\ Ended
  \/ Return /\ Ended

SpecCalls == Init /\ [][NextCalls]_vars

\* ------------------------------------------------- properties: vocabulary

IsSql == REGEX_MAP = BuildRegexMap(CfgSql)

\* the token list a finished call handed back
Returned(str) == pc = "returned" /\ original = str

\* whitespaceBefore and text of every token, in order, as one string
RECURSIVE Reassemble(_)
Reassemble(toks) ==
  IF toks = <<>> THEN <<>>
  ELSE Reassemble(SubSeq(toks, 1, Len(toks) - 1))
         \o toks[Len(toks)].whitespaceBefore \o toks[Len(toks)].text

HasWhitespace(s) == \E i \in DOMAIN s : s[i] \in WhitespaceChars

\* r is the beginning of o, and o has nothing but whitespace after it
UpToFinalWhitespace(r, o) ==
  /\ Len(r) <= Len(o)
  /\ SubSeq(o, 1, Len(r)) = r
  /\ \A i \in (Len(r) + 1)..Len(o) : o[i] \in WhitespaceChars

\* the types and the texts of a token list
TypesOf(toks) == [i \in DOMAIN toks |-> toks[i].type]

TextsOf(toks) == [i \in DOMAIN toks |-> toks[i].text]

\* the token before the scan position, as the loop holds it
PreviousOf(toks) == IF toks = <<>> THEN Undefined ELSE toks[Len(toks)]

\* a round of the loop that appended a token
TokenRound == pc = "loop" /\ Len(tokens') = Len(tokens) + 1

\* ------------------------------------------------------- C1 losslessness

\* C1 as the specification states it: with the default preprocess hook, the
\* whitespaceBefore and text of the returned tokens, concatenated in order,
\* are the original input, whatever whitespace the input ends with.
C1_Lossless ==
  (pc = "returned" /\ preprocess = "identity")
    => Reassemble(outcome.tokens) = original

\* C1: with the default preprocess hook, the whitespaceBefore and text of the
\* tokens, concatenated in order, are the original input up to the whitespace
\* that follows the last token: the input is that concatenation followed by
\* nothing but whitespace, and during the scan the tokens so far followed by
\* the remaining input are the original input up to that final whitespace.
C1_LosslessUpToFinalWhitespace ==
  preprocess = "identity" =>
    /\ pc = "loop" => UpToFinalWhitespace(Reassemble(tokens) \o input, original)
    /\ pc = "returned" => UpToFinalWhitespace(Reassemble(outcome.tokens), original)

\* a call returned tokens for an input that ends with whitespace, and the
\* concatenation lacks that whitespace
C1_Witness ==
  /\ Returned(ExTrailingWhitespace)
  /\ preprocess = "identity"
  /\ Len(outcome.tokens) = 2
  /\ Reassemble(outcome.tokens) \o <<" ", "\n">> = original

\* ------------------------------------------------------------ C2 progress

CascadeToken(k, str, previousToken) ==
  CASE k = 1 -> matchToken("LINE_COMMENT", str)
    [] k = 2 -> matchToken("BLOCK_COMMENT", str)
    [] k = 3 -> matchToken("STRING", str)
    [] k = 4 -> matchQuotedIdentToken(str)
    [] k = 5 -> matchToken("BLOCK_START", str)
    [] k = 6 -> matchToken("BLOCK_END", str)
    [] k = 7 -> matchPlaceholderToken(str)
    [] k = 8 -> matchToken("NUMBER", str)
    [] k = 9 -> matchReservedWordToken(str, previousToken)
    [] k = 10 -> matchToken("IDENT", str)
    [] k = 11 -> matchToken("OPERATOR", str)

Matches(k, str, previousToken) == ~IsUndefined(CascadeToken(k, str, previousToken))

\* the token of a round is the token of the first category that matches
FirstCategoryWins ==
  TokenRound =>
    \E str \in {AfterWhitespace(input)} :
      \E k \in 1..11 :
        /\ Matches(k, str, token)
        /\ \A j \in 1..(k - 1) : ~Matches(j, str, token)
        /\ token'.type = CascadeToken(k, str, token).type
        /\ token'.text = CascadeToken(k, str, token).text
        /\ token'.value = CascadeToken(k, str, token).value

\* C3: at every position the token is the one of the first category, in the
\* order line comment, block comment, string, quoted identifier, block start,
\* block end, placeholder, number, reserved word, identifier, operator, that
\* matches there, whatever a later category would match; so "-- SELECT 1" is
\* one line comment.
C3_Priority ==
  /\ [][FirstCategoryWins]_vars
  /\ [](Returned(ExCommentSelect) /\ IsSql =>
          /\ TypesOf(outcome.tokens) = <<"LINE_COMMENT">>
          /\ TextsOf(outcome.tokens) = <<ExCommentSelect>>)

\* "1a": the number category took "1" where the identifier category, later in
\* the order, matches the longer "1a"
C3_Witness ==
  /\ pc = "loop"
  /\ original = <<"1", "a">>
  /\ TypesOf(tokens) = <<"NUMBER">>
  /\ TextsOf(tokens) = << <<"1">> >>
  /\ input = <<"a">>
  /\ RegexMatch(original, REGEX_MAP.IDENT) = 2

\* ----------------------------------------------------------- C4 dot guard

\* C4: a token that directly follows, in the same call, a token whose value
\* is "." is never a reserved word, whatever whitespace lies between them; so
\* "mytable.from" is identifier, operator ".", identifier.
C4_DotGuard ==
  /\ \A i \in 2..Len(tokens) :
       tokens[i - 1].value = <<".">> => tokens[i].type \notin ReservedTypes
  /\ Returned(ExDotFrom) =>
       /\ TypesOf(outcome.tokens) = <<"IDENT", "OPERATOR", "IDENT">>
       /\ outcome.tokens[2].text = <<".">>
       /\ outcome.tokens[3].text = <<"f", "r", "o", "m">>

\* "t . \n from" where FROM is a reserved command: the word after the dot and
\* the whitespace is an identifier
C4_Witness ==
  /\ Returned(ExDotSpaceFrom)
  /\ ~IsUndefined(matchReservedToken("RESERVED_COMMAND", <<"f", "r", "o", "m">>))
  /\ TypesOf(outcome.tokens) = <<"IDENT", "OPERATOR", "IDENT">>
  /\ outcome.tokens[3].whitespaceBefore # <<>>

\* ------------------------------------------------------- C5 atomic failure

\* C5: a call fails only where, after the leading whitespace is skipped, the
\* remaining input is not empty and no category matches it; the failure hands
\* back a message and no tokens, the message being
\* Parse error: Unexpected "..." with at most the first 100 characters of that
\* remaining input, and a call that does not fail this way returns tokens.
C5_AtomicFailure ==
  /\ outcome.kind = "error" <=> pc = "thrown"
  /\ outcome.kind = "tokens" <=> pc = "returned"
  /\ pc = "thrown" =>
       /\ input # <<>>
       /\ input[1] \notin WhitespaceChars
       /\ \A k \in 1..11 : ~Matches(k, input, PreviousOf(tokens))
       /\ DOMAIN outcome = {"kind", "message"}
       /\ Len(outcome.message) = 3
       /\ outcome.message[1] = "Parse error: Unexpected \""
       /\ outcome.message[2] = SubSeq(input, 1, Min(Len(input), 100))
       /\ outcome.message[3] = "\""

\* the failure after a token was matched, with more than 100 characters left
C5_Witness ==
  /\ pc = "thrown"
  /\ original = ExLongUnexpected
  /\ Len(tokens) = 1
  /\ Len(input) = 101
  /\ Len(outcome.message[2]) = 100

\* ------------------------------------------------ C6 reserved-word order

ReservedOrder ==
  <<"RESERVED_CASE_START", "RESERVED_CASE_END", "RESERVED_COMMAND",
    "RESERVED_BINARY_COMMAND", "RESERVED_DEPENDENT_CLAUSE",
    "RESERVED_LOGICAL_OPERATOR", "RESERVED_KEYWORD", "RESERVED_JOIN_CONDITION">>

\* a reserved token has the type of the first subcategory that matches
FirstSubcategoryWins ==
  (TokenRound /\ token'.type \in ReservedTypes) =>
    \E str \in {AfterWhitespace(input)} :
      \E k \in 1..8 :
        /\ token'.type = ReservedOrder[k]
        /\ ~IsUndefined(matchReservedToken(ReservedOrder[k], str))
        /\ \A j \in 1..(k - 1) : IsUndefined(matchReservedToken(ReservedOrder[j], str))

\* C6: a reserved-word token has the type of the first of CASE start, CASE
\* end, command, binary command, dependent clause, logical operator, keyword,
\* join condition whose words match; a word that is both a command and a
\* keyword is a command.
C6_ReservedOrder ==
  /\ [][FirstSubcategoryWins]_vars
  /\ [](Returned(ExFrom) /\ IsSql =>
          TypesOf(outcome.tokens) = <<"RESERVED_COMMAND">>)

\* "from", a command and a keyword of the configuration, came out a command
C6_Witness ==
  /\ Returned(ExFrom)
  /\ ~IsUndefined(matchReservedToken("RESERVED_KEYWORD", original))
  /\ ~IsUndefined(matchReservedToken("RESERVED_COMMAND", original))
  /\ TypesOf(outcome.tokens) = <<"RESERVED_COMMAND">>

\* ----------------------------------------------------- C7 value of a token

\* the text upper-cased, each run of whitespace one space
Canonical(s) ==
  LET keep   == {i \in DOMAIN s :
                   s[i] \notin WhitespaceChars \/ i = 1 \/ s[i - 1] \notin WhitespaceChars}
      nth(k) == CHOOSE i \in keep : Cardinality({j \in keep : j <= i}) = k
  IN [k \in 1..Cardinality(keep) |->
        IF s[nth(k)] \in WhitespaceChars THEN " " ELSE UpperOf(s[nth(k)])]

\* C7: the value of a reserved-word token is its text upper-cased with every
\* run of whitespace collapsed to one space, and the value of every other
\* token is its text.
C7_Value ==
  \A i \in DOMAIN tokens :
    tokens[i].value = IF tokens[i].type \in ReservedTypes
                      THEN Canonical(tokens[i].text) ELSE tokens[i].text

\* "a \n b" matched as the command A B: value and text differ
C7_Witness ==
  /\ Returned(ExPhrase)
  /\ TypesOf(outcome.tokens) = <<"RESERVED_COMMAND">>
  /\ outcome.tokens[1].text = ExPhrase
  /\ outcome.tokens[1].value = W_A_B

\* -------------------------------------------------- C8 placeholder keys

IsQuote(c) == c \in {"\"", "'"}

\* k without the backslash of every backslash-quote pair
Unescaped(k, q) ==
  LET keep   == {i \in DOMAIN k : ~(k[i] = "\\" /\ i < Len(k) /\ k[i + 1] = q)}
      nth(n) == CHOOSE i \in keep : Cardinality({j \in keep : j <= i}) = n
  IN [n \in 1..Cardinality(keep) |-> k[nth(n)]]

\* the key that belongs to the text of a placeholder
KeyOf(text) ==
  IF Len(text) >= 3 /\ IsQuote(text[2])
  THEN Unescaped(SubSeq(text, 3, Len(text) - 1), text[Len(text)])
  ELSE SubSeq(text, 2, Len(text))

\* C8: every placeholder token has a key: the text without its prefix
\* character for a named, a numbered and a positional placeholder (so ":42"
\* has key "42", "@foo" has key "foo", "?" has the empty key), and for a
\* quoted placeholder the text without the prefix and the two quotes, each
\* backslash-quote pair being the bare quote; no other token has a key.
C8_Keys ==
  /\ \A i \in DOMAIN tokens :
       IF tokens[i].type = "PLACEHOLDER"
       THEN "key" \in DOMAIN tokens[i] /\ tokens[i].key = KeyOf(tokens[i].text)
       ELSE "key" \notin DOMAIN tokens[i]
  /\ (IsSql /\ Returned(ExNumbered)) =>
       (Len(outcome.tokens) = 1 /\ outcome.tokens[1].key = <<"4", "2">>)
  /\ (IsSql /\ Returned(ExNamed)) =>
       (Len(outcome.tokens) = 1 /\ outcome.tokens[1].key = <<"f", "o", "o">>)
  /\ (IsSql /\ Returned(ExPositional)) =>
       (Len(outcome.tokens) = 1 /\ outcome.tokens[1].key = <<>>)

\* the quoted placeholder :"a\"b" came out with the key a"b
C8_Witness ==
  /\ Returned(ExQuotedPlaceholder)
  /\ TypesOf(outcome.tokens) = <<"PLACEHOLDER">>
  /\ outcome.tokens[1].text = ExQuotedPlaceholder
  /\ outcome.tokens[1].key = <<"a", "\"", "b">>

\* ------------------------------------------------- C9 numbers and minus

\* C9 as the specification states it: the text of a number token has no
\* whitespace in it.
C9_NoWhitespaceInNumber ==
  \A i \in DOMAIN tokens :
    tokens[i].type = "NUMBER" => ~HasWhitespace(tokens[i].text)

\* whitespace only between a leading minus and the first digit
SignedNumberShape(text) ==
  \A i \in DOMAIN text :
    text[i] \in WhitespaceChars =>
      /\ text[1] = "-"
      /\ \A j \in 2..i : text[j] \in WhitespaceChars
      /\ \E j \in (i + 1)..Len(text) : text[j] \in Digits

\* C9: a number token may begin with a minus followed by whitespace and then
\* the digits, and has whitespace nowhere else; "a - 1" is the identifier a
\* and the one number token "- 1", and "-1" is one number token, the number
\* category being tried before the operator category.
C9_SignedNumber ==
  /\ \A i \in DOMAIN tokens :
       tokens[i].type = "NUMBER" => SignedNumberShape(tokens[i].text)
  /\ (IsSql /\ Returned(ExMinusSpaced)) =>
       /\ TypesOf(outcome.tokens) = <<"IDENT", "NUMBER">>
       /\ outcome.tokens[2].text = <<"-", " ", "1">>
       /\ outcome.tokens[2].whitespaceBefore = <<" ">>
  /\ Returned(ExMinusAdjacent) =>
       /\ TypesOf(outcome.tokens) = <<"NUMBER">>
       /\ outcome.tokens[1].text = ExMinusAdjacent

\* "a - 1" came out with a number token that has a space in it
C9_Witness ==
  /\ Returned(ExMinusSpaced)
  /\ Len(outcome.tokens) = 2
  /\ outcome.tokens[2].type = "NUMBER"
  /\ HasWhitespace(outcome.tokens[2].text)

\* ------------------------------------------------- C10 call after call

SameOutcome(a, b) ==
  /\ a.kind = b.kind
  /\ a.kind = "error" => a.message = b.message
  /\ a.kind = "tokens" =>
       /\ Len(a.tokens) = Len(b.tokens)
       /\ \A i \in DOMAIN a.tokens :
            /\ DOMAIN a.tokens[i] = DOMAIN b.tokens[i]
            /\ \A f \in DOMAIN a.tokens[i] : a.tokens[i][f] = b.tokens[i][f]

\* C10: a call leaves the instance as it found it, every call starts with no
\* previous token, no tokens and its whole input, and calls of the same input
\* on one instance, whatever was called in between and however those calls
\* ended, have the same outcome.
C10_NoCrossCallState ==
  /\ [][UNCHANGED instance]_vars
  /\ []((pc = "loop" /\ tokens = <<>> /\ input = original) => IsUndefined(token))
  /\ [](\A a \in seen : \A b \in seen :
          a.input = b.input => SameOutcome(a.outcome, b.outcome))

\* "from" is being scanned after a call that ended with the token "." and a
\* call that failed, "from" itself having been called before
C10_Witness ==
  /\ pc = "loop"
  /\ original = ExFrom
  /\ input = ExFrom
  /\ \E a \in seen : a.input = ExFrom /\ a.outcome.kind = "tokens"
  /\ \E a \in seen : a.input = ExTrailingDot /\ a.outcome.kind = "tokens"
  /\ \E a \in seen : a.outcome.kind = "error"

====
